---- MODULE Spec2Model ----
(***************************************************************************)
(* Model of src/main.py: the retail ETL pipeline                           *)
(*   load_environment -> dataset_download -> create_db_engine ->           *)
(*   load_and_clean_data -> validate_data -> save_to_database -> finally   *)
(* A DataFrame is a record [columns, dtype, index, rows]; the database is  *)
(* a set of schemas and a map from qualified table names to tables.        *)
(***************************************************************************)
EXTENDS Integers, Sequences, FiniteSets, TLC

\* ---------------------------------------------------------------- bounds
MaxRows == 2
MaxDataRows == 2
MaxRuns == 2

\* ------------------------------------------------------------- constants
None == "None"
NaN == "NaN"
NaT == "NaT"

\* datetime.now() as a calendar date yyyymmdd (validate_data, line 120)
Now == 20261103

EnvVars == {"DB_HOST", "DB_USER", "DB_PASSWORD", "DB_NAME", "DB_PORT", "INPUT_FILE"}

\* os.environ after load_dotenv(): every variable set, or one unset, or
\* INPUT_FILE set to the empty string
Environments ==
    LET full == [v \in EnvVars |-> IF v = "INPUT_FILE" THEN "sales.csv" ELSE "set"]
    IN  {full}
        \cup {[full EXCEPT ![v] = None] : v \in EnvVars}
        \cup {[full EXCEPT !["INPUT_FILE"] = ""]}

\* save_to_database: the schema of CREATE SCHEMA IF NOT EXISTS (line 132)
CreatedSchema == "retail_db_db"
\* save_to_database: schema= of to_sql, has_table and SELECT COUNT(*)
WriteSchema == "retail_db"
\* save_to_database: default table_name
table_name == "best_buy_sales"
Target == <<WriteSchema, table_name>>

\* --------------------------------------------------------- CSV contents
RawNames == {"Date", "Store Number", "Weekly_Sales"}

\* df.columns.str.lower().str.replace(' ', '_') on the header names used
Normalize(name) ==
    CASE name = "Date" -> "date"
      [] name = "Store Number" -> "store_number"
      [] name = "Weekly_Sales" -> "weekly_sales"
      [] OTHER -> name

DateCells == {"01-03-2024", "01-03-2099", "March 1, 2024", "yesterday-ish", ""}
StoreCells == {"-3", "0", "2", ""}
SalesCells == {"-150.0", "100.0", "", "x"}

CellsOf(raw) ==
    CASE raw = "Date" -> DateCells
      [] raw = "Store Number" -> StoreCells
      [] raw = "Weekly_Sales" -> SalesCells

IntLiterals == {"-3", "0", "2"}
FloatLiterals == {"-150.0", "100.0"}

\* the number a numeric literal of the CSV denotes
Num(cell) ==
    CASE cell = "-3" -> -3
      [] cell = "0" -> 0
      [] cell = "2" -> 2
      [] cell = "-150.0" -> -150
      [] cell = "100.0" -> 100

\* a well-formed row of the dataset
GoodRow ==
    [h \in RawNames |-> CASE h = "Date" -> "01-03-2024"
                          [] h = "Store Number" -> "2"
                          [] h = "Weekly_Sales" -> "100.0"]

\* the rows of the input files: every combination of cells in which at
\* least one cell is that of the well-formed row
DataRows ==
    {r \in [RawNames -> DateCells \cup StoreCells \cup SalesCells] :
        /\ \A h \in RawNames : r[h] \in CellsOf(h)
        /\ \E h \in RawNames : r[h] = GoodRow[h]}
DataHeaders == SUBSET RawNames

\* a few whole rows, for the runs that go on to the database
PipelineRows ==
    { [h \in RawNames |-> CASE h = "Date" -> d [] h = "Store Number" -> s [] OTHER -> w] :
        <<d, s, w>> \in { <<"01-03-2024", "2", "100.0">>,
                          <<"01-03-2099", "2", "-150.0">>,
                          <<"yesterday-ish", "2", "100.0">>,
                          <<"01-03-2024", "-3", "100.0">> } }
PipelineHeaders == {RawNames} \cup {RawNames \ {h} : h \in RawNames}

\* the rows of a file that has only the columns of header
Project(rows, header) == {[h \in header |-> r[h]] : r \in rows}

\* ------------------------------------------------------------ DataFrames
\* pandas' dtype inference for one CSV column: int64 "i", float64 "f"
\* (numbers with missing cells, or nothing but missing cells), object "O"
InferDtype(cells) ==
    IF Len(cells) = 0 THEN "O"
    ELSE IF \A i \in 1..Len(cells) : cells[i] \in IntLiterals THEN "i"
    ELSE IF \A i \in 1..Len(cells) : cells[i] \in IntLiterals \cup FloatLiterals \cup {""}
         THEN "f"
    ELSE "O"

\* the value pandas stores for one cell: an empty cell is missing; any other
\* is kept as its text, which Num reads under a numeric dtype
ReadCell(cell) == IF cell = "" THEN NaN ELSE cell

Column(rows, c) == [i \in 1..Len(rows) |-> rows[i][c]]

\* pd.read_csv(file_path)
read_csv(file) ==
    LET kinds == [c \in file.header |-> InferDtype(Column(file.rows, c))]
    IN  [columns |-> file.header,
         dtype   |-> kinds,
         index   |-> [i \in 1..Len(file.rows) |-> i - 1],
         rows    |-> [i \in 1..Len(file.rows) |->
                        [c \in file.header |-> ReadCell(file.rows[i][c])]]]

\* df.columns = df.columns.str.lower().str.replace(' ', '_')
NormalizeColumns(df) ==
    LET cols == {Normalize(c) : c \in df.columns}
        raw(n) == CHOOSE c \in df.columns : Normalize(c) = n
    IN  [columns |-> cols,
         dtype   |-> [n \in cols |-> df.dtype[raw(n)]],
         index   |-> df.index,
         rows    |-> [i \in 1..Len(df.rows) |-> [n \in cols |-> df.rows[i][raw(n)]]]]

\* strptime with "%d-%m-%Y", as an ISO date
DmyCells == {"01-03-2024", "01-03-2099"}
DmyDate(v) == CASE v = "01-03-2024" -> "2024-03-01" [] v = "01-03-2099" -> "2099-03-01"
\* a date only the lenient parser reads
AltCells == {"March 1, 2024"}
AltDate(v) == CASE v = "March 1, 2024" -> "2024-03-01"
\* a parsed date as the number yyyymmdd, for comparisons
DateNum(d) ==
    CASE d = "2024-03-01" -> 20240301
      [] d = "2099-03-01" -> 20990301

\* pd.to_datetime(df['date'], format="%d-%m-%Y"): raises ValueError when a
\* present value does not match the format; a missing value becomes NaT
StrictRaises(df) ==
    \E i \in 1..Len(df.rows) : df.rows[i]["date"] \notin DmyCells \cup {NaN}
StrictValue(v) == IF v = NaN THEN NaT ELSE DmyDate(v)

\* pd.to_datetime(df['date'], dayfirst=True, errors='coerce'). With format
\* inference (infer) the format guessed from the first present value is
\* applied to every value; without it each value is parsed on its own.
GuessFormat(v) ==
    IF v \in DmyCells THEN "dmy" ELSE IF v \in AltCells THEN "alt" ELSE None
ParseAny(v) ==
    IF v \in DmyCells THEN DmyDate(v) ELSE IF v \in AltCells THEN AltDate(v) ELSE NaT
ParseAs(v, fmt) ==
    IF fmt = "dmy" /\ v \in DmyCells THEN DmyDate(v)
    ELSE IF fmt = "alt" /\ v \in AltCells THEN AltDate(v)
    ELSE NaT
LenientValues(vals, infer) ==
    LET present == {i \in 1..Len(vals) : vals[i] # NaN}
        first == IF present = {} THEN None
                 ELSE vals[CHOOSE i \in present : \A j \in present : i <= j]
        fmt == IF infer /\ first # None THEN GuessFormat(first) ELSE None
    IN  [i \in 1..Len(vals) |->
            IF fmt = None THEN ParseAny(vals[i]) ELSE ParseAs(vals[i], fmt)]

WithDates(df, dates) ==
    [df EXCEPT !.dtype["date"] = "M",
               !.rows = [i \in 1..Len(df.rows) |-> [df.rows[i] EXCEPT !["date"] = dates[i]]]]

\* lines 81-85: strict parse, lenient parse on ValueError
ParseDates(df, infer) ==
    IF StrictRaises(df)
    THEN WithDates(df, LenientValues(Column(df.rows, "date"), infer))
    ELSE WithDates(df, [i \in 1..Len(df.rows) |-> StrictValue(df.rows[i]["date"])])

\* lines 87-88: fillna(0) on the float64 and int64 columns
FillNumeric(df) ==
    [df EXCEPT !.rows = [i \in 1..Len(df.rows) |->
        [c \in df.columns |->
            IF df.dtype[c] \in {"f", "i"} /\ df.rows[i][c] = NaN THEN "0" ELSE df.rows[i][c]]]]

RECURSIVE Keep(_, _)
\* the positions of s, in order, that satisfy the mask
Keep(n, mask) ==
    IF n = 0 THEN << >>
    ELSE IF mask[n] THEN Append(Keep(n - 1, mask), n) ELSE Keep(n - 1, mask)

null_dates(df) == Cardinality({i \in 1..Len(df.rows) : df.rows[i]["date"] = NaT})

\* dropna() without subset=: a row with any missing value goes
DropAnyNull(df) ==
    LET kept == Keep(Len(df.rows),
                     [i \in 1..Len(df.rows) |->
                        \A c \in df.columns : df.rows[i][c] \notin {NaN, NaT}])
    IN  [df EXCEPT !.index = [k \in 1..Len(kept) |-> df.index[kept[k]]],
                   !.rows  = [k \in 1..Len(kept) |-> df.rows[kept[k]]]]

\* df.dropna(subset=['date'])
DropNullDates(df) ==
    LET kept == Keep(Len(df.rows), [i \in 1..Len(df.rows) |-> df.rows[i]["date"] # NaT])
    IN  [df EXCEPT !.index = [k \in 1..Len(kept) |-> df.index[kept[k]]],
                   !.rows  = [k \in 1..Len(kept) |-> df.rows[kept[k]]]]

\* lines 87-95 of load_and_clean_data
Clean(df) ==
    LET filled == FillNumeric(df)
    IN  IF null_dates(filled) > 0 THEN DropNullDates(filled) ELSE filled

\* ------------------------------------------------------------ validation
\* a list of required columns that forgets store_number
required_columns_short == {"date", "weekly_sales"}

required_columns == {"store_number", "date", "weekly_sales"}

\* validate_data with the store check written as < 0
validate_data_strict_less(df) ==
    IF required_columns \ df.columns # {} THEN "ValueError: Missing required columns"
    ELSE IF "date" \notin df.columns THEN "KeyError: 'date'"
    ELSE IF df.dtype["date"] # "M" THEN "ValueError: Date column is not in datetime format"
    ELSE IF "store_number" \notin df.columns THEN "KeyError: 'store_number'"
    ELSE IF df.dtype["store_number"] \notin {"u", "i"}
         THEN "ValueError: Store numbers must be integers"
    ELSE IF \E i \in 1..Len(df.rows) : Num(df.rows[i]["store_number"]) < 0
         THEN "ValueError: Store numbers must be positive"
    ELSE IF "weekly_sales" \notin df.columns THEN "KeyError: 'weekly_sales'"
    ELSE IF df.dtype["weekly_sales"] = "O"
            /\ \E i \in 1..Len(df.rows) : df.rows[i]["weekly_sales"] # NaN
         THEN "TypeError: '<' not supported between str and int"
    ELSE None

\* validate_data with negative sales made fatal
validate_data_negative_fatal(df) ==
    IF required_columns \ df.columns # {} THEN "ValueError: Missing required columns"
    ELSE IF "date" \notin df.columns THEN "KeyError: 'date'"
    ELSE IF df.dtype["date"] # "M" THEN "ValueError: Date column is not in datetime format"
    ELSE IF "store_number" \notin df.columns THEN "KeyError: 'store_number'"
    ELSE IF df.dtype["store_number"] \notin {"u", "i"}
         THEN "ValueError: Store numbers must be integers"
    ELSE IF \E i \in 1..Len(df.rows) : Num(df.rows[i]["store_number"]) <= 0
         THEN "ValueError: Store numbers must be positive"
    ELSE IF "weekly_sales" \notin df.columns THEN "KeyError: 'weekly_sales'"
    ELSE IF df.dtype["weekly_sales"] = "O"
            /\ \E i \in 1..Len(df.rows) : df.rows[i]["weekly_sales"] # NaN
         THEN "TypeError: '<' not supported between str and int"
    ELSE IF \E i \in 1..Len(df.rows) : Num(df.rows[i]["weekly_sales"]) < 0
         THEN "ValueError: Negative sales"
    ELSE None

\* validate_data: the exception it raises, or None. df[c] of a column the
\* frame does not have raises KeyError.
validate_data(df) ==
    IF required_columns \ df.columns # {} THEN "ValueError: Missing required columns"
    ELSE IF "date" \notin df.columns THEN "KeyError: 'date'"
    ELSE IF df.dtype["date"] # "M" THEN "ValueError: Date column is not in datetime format"
    ELSE IF "store_number" \notin df.columns THEN "KeyError: 'store_number'"
    ELSE IF df.dtype["store_number"] \notin {"u", "i"}
         THEN "ValueError: Store numbers must be integers"
    ELSE IF \E i \in 1..Len(df.rows) : Num(df.rows[i]["store_number"]) <= 0
         THEN "ValueError: Store numbers must be positive"
    ELSE IF "weekly_sales" \notin df.columns THEN "KeyError: 'weekly_sales'"
    ELSE IF df.dtype["weekly_sales"] = "O"
            /\ \E i \in 1..Len(df.rows) : df.rows[i]["weekly_sales"] # NaN
         THEN "TypeError: '<' not supported between str and int"
    ELSE None

negative_sales(df) ==
    {i \in 1..Len(df.rows) : df.dtype["weekly_sales"] # "O" /\ Num(df.rows[i]["weekly_sales"]) < 0}
future_dates(df) == {i \in 1..Len(df.rows) : DateNum(df.rows[i]["date"]) > Now}

\* the warnings validate_data logs when it returns
ValidationWarnings(df) ==
    (IF negative_sales(df) # {} THEN {"negative sales"} ELSE {})
    \cup (IF future_dates(df) # {} THEN {"future dates"} ELSE {})

\* -------------------------------------------------------------- database
NoDf == [columns |-> {}, dtype |-> << >>, index |-> << >>, rows |-> << >>]

\* what a load of some earlier day left in the target table
OldTable ==
    [columns |-> {"date", "store_number", "weekly_sales", "loaded_at", "source_file"},
     rows |-> << [date |-> "2023-01-01", store_number |-> "7", weekly_sales |-> "5.0",
                  loaded_at |-> 0, source_file |-> "old.csv"] >>]

\* CREATE SCHEMA IF NOT EXISTS retail_db_db
EnsureSchema(schs) == schs \cup {CreatedSchema}

\* a stamp that reads an environment variable that is not set
StampNoSource(df, now, source) ==
    LET cols == df.columns \cup {"loaded_at", "source_file"}
    IN  [columns |-> cols,
         dtype   |-> [c \in cols |-> CASE c = "loaded_at" -> "M"
                                       [] c = "source_file" -> "O"
                                       [] OTHER -> df.dtype[c]],
         index   |-> df.index,
         rows    |-> [i \in 1..Len(df.rows) |->
                        [c \in cols |-> CASE c = "loaded_at" -> now
                                          [] c = "source_file" -> None
                                          [] OTHER -> df.rows[i][c]]]]

\* lines 135-136: df['loaded_at'] = datetime.now(); df['source_file'] = os.getenv('INPUT_FILE')
Stamp(df, now, source) ==
    LET cols == df.columns \cup {"loaded_at", "source_file"}
    IN  [columns |-> cols,
         dtype   |-> [c \in cols |-> CASE c = "loaded_at" -> "M"
                                       [] c = "source_file" -> "O"
                                       [] OTHER -> df.dtype[c]],
         index   |-> df.index,
         rows    |-> [i \in 1..Len(df.rows) |->
                        [c \in cols |-> CASE c = "loaded_at" -> now
                                          [] c = "source_file" -> source
                                          [] OTHER -> df.rows[i][c]]]]

\* the table a DataFrame is written as (index=False)
AsTable(df) == [columns |-> df.columns, rows |-> df.rows]

Put(tbls, name, t) ==
    [n \in DOMAIN tbls \cup {name} |-> IF n = name THEN t ELSE tbls[n]]
Drop(tbls, name) == [n \in DOMAIN tbls \ {name} |-> tbls[n]]

\* to_sql that leaves a table that is already there as it is
ReplaceKeepOld(tbls, name, df) ==
    IF name \in DOMAIN tbls THEN tbls ELSE Put(tbls, name, AsTable(df))

\* to_sql with if_exists='append'
ReplaceAppend(tbls, name, df) ==
    IF name \in DOMAIN tbls
    THEN Put(tbls, name, [columns |-> df.columns, rows |-> tbls[name].rows \o df.rows])
    ELSE Put(tbls, name, AsTable(df))

\* df.to_sql(name, schema, if_exists='replace'): the tables when it returns
Replace(tbls, name, df) == Put(tbls, name, AsTable(df))

\* the tables a to_sql that raises can leave: nothing done yet, the old
\* table dropped, or the new table created and no row inserted
FailedWrites(tbls, name, df) ==
    {tbls, Drop(tbls, name), Put(tbls, name, [columns |-> df.columns, rows |-> << >>])}

\* ------------------------------------------------------------------ main
VARIABLES
    pc,          \* the state of the run: Start .. Closed
    run,         \* the number of this run; datetime.now() of save_to_database
    environ,     \* os.environ after load_dotenv()
    env_vars,    \* main's env_vars
    engine,      \* main's engine: None or "engine"
    engineObj,   \* the Engine create_engine made in this run: none, live, disposed
    pooled,      \* connections the Engine's pool holds open
    schemas,     \* the schemas of the database
    tables,      \* qualified table name -> table
    startTables, \* tables when this run started
    csv,         \* the file read_csv read in this run: {} or {file}
    df,          \* the DataFrame of this run
    raised,      \* the exception main propagated, or NoError
    log,         \* the warnings logged in this run
    row_count    \* the row count save_to_database logged: {} or {n}

vars == <<pc, run, environ, env_vars, engine, engineObj, pooled, schemas, tables,
          startTables, csv, df, raised, log, row_count>>

NoTables == [n \in {} |-> None]
NoError == [by |-> None, exc |-> None, at |-> None]

InitRun ==
    /\ pc = "Start"
    /\ env_vars = << >>
    /\ engine = None
    /\ engineObj = "none"
    /\ pooled = 0
    /\ csv = {}
    /\ df = NoDf
    /\ raised = NoError
    /\ log = {}
    /\ row_count = {}

Init ==
    /\ InitRun
    /\ run = 1
    /\ environ \in Environments
    /\ schemas \in SUBSET {WriteSchema, CreatedSchema}
    /\ tables \in {NoTables} \cup
                  (IF WriteSchema \in schemas THEN {Put(NoTables, Target, OldTable)} ELSE {})
    /\ startTables = tables

\* the finally block of main: dispose main's engine if it has one
Finally(eng, obj) == IF eng # None THEN "disposed" ELSE obj

\* an exception handler that logs and carries on
AbortSwallow(by, exc, obj, conns) ==
    /\ pc' = pc
    /\ raised' = [by |-> by, exc |-> exc, at |-> pc]
    /\ engineObj' = obj
    /\ pooled' = conns

\* an exception leaves main: logged, re-raised, the finally block run.
\* obj and conns are the Engine and its pool as the failing step left them.
Abort(by, exc, obj, conns) ==
    /\ pc' = "Closed"
    /\ raised' = [by |-> by, exc |-> exc, at |-> pc]
    /\ engineObj' = Finally(engine, obj)
    /\ pooled' = IF Finally(engine, obj) = "disposed" THEN 0 ELSE conns

\* load_environment: the variables that are unset or empty
missing_env(e) == {k \in DOMAIN e : e[k] \in {None, ""}}

LoadEnvironment ==
    /\ pc = "Start"
    /\ IF missing_env(environ) # {}
       THEN /\ Abort("load_environment", "ValueError", engineObj, pooled)
            /\ UNCHANGED env_vars
       ELSE /\ pc' = "EnvLoaded"
            /\ env_vars' = environ
            /\ UNCHANGED <<raised, engineObj, pooled>>
    /\ UNCHANGED <<run, environ, engine, schemas, tables, startTables, csv, df, log,
                   row_count>>

\* kagglehub.dataset_download
Download ==
    /\ pc = "EnvLoaded"
    /\ \E ok \in BOOLEAN :
        IF ok THEN pc' = "Downloaded" /\ UNCHANGED <<raised, engineObj, pooled>>
        ELSE Abort("dataset_download", "Exception", engineObj, pooled)
    /\ UNCHANGED <<run, environ, env_vars, engine, schemas, tables, startTables, csv, df,
                   log, row_count>>

\* create_db_engine
CreateDbEngine ==
    /\ pc = "Downloaded"
    /\ IF {"DB_HOST", "DB_USER", "DB_PASSWORD", "DB_NAME", "DB_PORT"} \ DOMAIN env_vars # {}
       THEN Abort("create_db_engine", "ValueError", engineObj, pooled) /\ UNCHANGED engine
       ELSE \E outcome \in {"ok", "create_engine raises", "connect raises", "SELECT 1 raises"} :
            CASE outcome = "ok" ->
                    /\ pc' = "Connected"
                    /\ engine' = "engine"
                    /\ engineObj' = "live"
                    /\ pooled' = 1
                    /\ UNCHANGED raised
              [] outcome = "create_engine raises" ->
                    Abort("create_db_engine", "Exception", "none", 0) /\ UNCHANGED engine
              [] outcome = "connect raises" ->
                    Abort("create_db_engine", "OperationalError", "live", 0) /\ UNCHANGED engine
              [] outcome = "SELECT 1 raises" ->
                    Abort("create_db_engine", "ProgrammingError", "live", 1) /\ UNCHANGED engine
    /\ UNCHANGED <<run, environ, env_vars, schemas, tables, startTables, csv, df, log,
                   row_count>>

\* load_and_clean_data, lines 77-85: read the file, normalise the column
\* names, parse the dates
Load(headers, rows, maxlen) ==
    /\ pc = "Connected"
    /\ \/ /\ Abort("load_and_clean_data", "FileNotFoundError", engineObj, pooled)
          /\ UNCHANGED <<csv, df, log>>
       \/ \E header \in headers : \E n \in 0..maxlen : \E rs \in [1..n -> Project(rows, header)] :
            LET file == [header |-> header, rows |-> rs]
                frame == NormalizeColumns(read_csv(file))
            IN  /\ csv' = {file}
                /\ IF "date" \notin frame.columns
                   THEN /\ Abort("load_and_clean_data", "KeyError", engineObj, pooled)
                        /\ UNCHANGED <<df, log>>
                   ELSE /\ \E infer \in BOOLEAN : df' = ParseDates(frame, infer)
                        /\ log' = IF StrictRaises(frame)
                                  THEN log \cup {"date format does not match"} ELSE log
                        /\ pc' = "Loaded"
                        /\ UNCHANGED <<raised, engineObj, pooled>>
    /\ UNCHANGED <<run, environ, env_vars, engine, schemas, tables, startTables, row_count>>

\* load_and_clean_data, lines 87-95: fill the numeric columns, drop the rows
\* without a date
CleanData ==
    /\ pc = "Loaded"
    /\ df' = Clean(df)
    /\ log' = IF null_dates(df) > 0 THEN log \cup {"removing rows with invalid dates"}
              ELSE log
    /\ pc' = "Cleaned"
    /\ UNCHANGED <<run, environ, env_vars, engine, engineObj, pooled, schemas, tables,
                   startTables, csv, raised, row_count>>

\* validate_data
Validate ==
    /\ pc = "Cleaned"
    /\ IF validate_data(df) # None
       THEN Abort("validate_data", validate_data(df), engineObj, pooled) /\ UNCHANGED log
       ELSE /\ pc' = "Validated"
            /\ log' = log \cup ValidationWarnings(df)
            /\ UNCHANGED <<raised, engineObj, pooled>>
    /\ UNCHANGED <<run, environ, env_vars, engine, schemas, tables, startTables, csv, df,
                   row_count>>

\* save_to_database, lines 131-133: create the schema
CreateSchema ==
    /\ pc = "Validated"
    /\ \E ok \in BOOLEAN :
        IF ok
        THEN /\ schemas' = EnsureSchema(schemas)
             /\ pc' = "SchemaEnsured"
             /\ UNCHANGED <<raised, engineObj, pooled>>
        ELSE /\ Abort("save_to_database", "OperationalError", engineObj, pooled)
             /\ UNCHANGED schemas
    /\ UNCHANGED <<run, environ, env_vars, engine, tables, startTables, csv, df, log,
                   row_count>>

\* save_to_database, lines 135-145: stamp the rows and write the table
ToSql ==
    /\ pc = "SchemaEnsured"
    /\ LET stamped == Stamp(df, run, environ["INPUT_FILE"])
       IN  /\ df' = stamped
           /\ IF WriteSchema \notin schemas
              THEN /\ Abort("save_to_database", "ProgrammingError", engineObj, pooled)
                   /\ UNCHANGED tables
              ELSE \/ /\ tables' = Replace(tables, Target, stamped)
                      /\ pc' = "Written"
                      /\ UNCHANGED <<raised, engineObj, pooled>>
                   \/ /\ tables' \in FailedWrites(tables, Target, stamped)
                      /\ Abort("save_to_database", "OperationalError", engineObj, pooled)
    /\ UNCHANGED <<run, environ, env_vars, engine, schemas, startTables, csv, log,
                   row_count>>

\* save_to_database, lines 147-154: has_table, then SELECT COUNT(*)
VerifyAndCount ==
    /\ pc = "Written"
    /\ IF Target \notin DOMAIN tables
       THEN /\ Abort("save_to_database", "Exception: Table was not created", engineObj, pooled)
            /\ UNCHANGED row_count
       ELSE \E ok \in BOOLEAN :
            IF ok
            THEN /\ row_count' = {Len(tables[Target].rows)}
                 /\ pc' = "Persisted"
                 /\ UNCHANGED <<raised, engineObj, pooled>>
            ELSE /\ Abort("save_to_database", "OperationalError", engineObj, pooled)
                 /\ UNCHANGED row_count
    /\ UNCHANGED <<run, environ, env_vars, engine, schemas, tables, startTables, csv, df,
                   log>>

\* main returns normally: the finally block
Close ==
    /\ pc = "Persisted"
    /\ pc' = "Closed"
    /\ engineObj' = Finally(engine, engineObj)
    /\ pooled' = IF Finally(engine, engineObj) = "disposed" THEN 0 ELSE pooled
    /\ UNCHANGED <<run, environ, env_vars, engine, schemas, tables, startTables, csv, df,
                   raised, log, row_count>>

\* the script is started again, against the database the last run left
NewRun ==
    /\ pc = "Closed"
    /\ run < MaxRuns
    /\ run' = run + 1
    /\ pc' = "Start"
    /\ env_vars' = << >>
    /\ engine' = None
    /\ engineObj' = "none"
    /\ pooled' = 0
    /\ csv' = {}
    /\ df' = NoDf
    /\ raised' = NoError
    /\ log' = {}
    /\ row_count' = {}
    /\ startTables' = tables
    /\ UNCHANGED <<environ, schemas, tables>>

Next ==
    \/ LoadEnvironment
    \/ Download
    \/ CreateDbEngine
    \/ Load(PipelineHeaders, PipelineRows, MaxRows)
    \/ CleanData
    \/ Validate
    \/ CreateSchema
    \/ ToSql
    \/ VerifyAndCount
    \/ Close
    \/ NewRun

Spec == Init /\ [][Next]_vars

\* one run over every input file, against a database that has both schemas
InitData ==
    /\ InitRun
    /\ run = 1
    /\ environ \in {e \in Environments : missing_env(e) = {}}
    /\ schemas = {WriteSchema, CreatedSchema}
    /\ tables = NoTables
    /\ startTables = tables

NextData ==
    \/ LoadEnvironment
    \/ Download
    \/ CreateDbEngine
    \/ Load(DataHeaders, DataRows, MaxDataRows)
    \/ CleanData
    \/ Validate
    \/ CreateSchema
    \/ ToSql
    \/ VerifyAndCount
    \/ Close

SpecData == InitData /\ [][NextData]_vars

\* ================================================================ claims
Order == <<"Start", "EnvLoaded", "Downloaded", "Connected", "Loaded", "Cleaned",
           "Validated", "SchemaEnsured", "Written", "Persisted", "Closed">>
Rank(p) == CHOOSE i \in 1..Len(Order) : Order[i] = p

Succeeded == pc = "Closed" /\ raised = NoError
Failed == pc = "Closed" /\ raised # NoError

\* C1: the states of a run are passed in the fixed order, one step at a
\* time and only while no error has been raised; a step that raises takes
\* the run straight to Closed with that error propagated; nothing runs after
\* an error, no step is taken twice, and the database is written to only by
\* the Persister of a run without error.
C1_StepOrder ==
    [][ /\ pc' # pc =>
            \/ raised = NoError /\ raised' = NoError /\ Rank(pc') = Rank(pc) + 1
            \/ raised = NoError /\ raised' # NoError /\ pc' = "Closed" /\ raised'.at = pc
            \/ pc = "Closed" /\ pc' = "Start" /\ run' = run + 1
        /\ raised # NoError => pc = "Closed"
        /\ raised' # NoError => pc' = "Closed"
        /\ (tables' # tables \/ schemas' # schemas) =>
              raised = NoError /\ pc \in {"Validated", "SchemaEnsured"}
      ]_vars

C1_Witness ==
    /\ Failed
    /\ raised.by = "validate_data"
    /\ raised.at = "Cleaned"
    /\ engineObj = "disposed"

\* C2: when a run has terminated, every Engine it created has been disposed
\* and its pool holds no open connection.
C2_EngineReleased ==
    pc = "Closed" => engineObj \in {"none", "disposed"} /\ pooled = 0

\* C3: after the schema-creation step of save_to_database the schema the
\* table is written to exists.
C3_WriteSchemaExists ==
    pc = "SchemaEnsured" => WriteSchema \in schemas

\* C4: after a successful run there is exactly one target table, it holds
\* the rows of this run's batch and no others, every row was stamped by this
\* run, and the logged row count is the batch's.
C4_ReplaceNotAccumulate ==
    (pc = "Persisted" \/ Succeeded) =>
        /\ DOMAIN tables = {Target}
        /\ Len(tables[Target].rows) = Len(df.rows)
        /\ row_count = {Len(df.rows)}
        /\ \A i \in 1..Len(df.rows) :
              /\ tables[Target].rows[i] = df.rows[i]
              /\ tables[Target].rows[i]["loaded_at"] = run

C4_Witness ==
    /\ Succeeded
    /\ run = 2
    /\ Target \in DOMAIN startTables
    /\ Len(startTables[Target].rows) = 2
    /\ startTables[Target].rows[1]["loaded_at"] = 1
    /\ Len(tables[Target].rows) = 1

\* C5: the write of a validated batch of N rows leaves a target table of
\* exactly N rows, each with the batch's values in the batch's columns plus
\* loaded_at and source_file, both present on every row; verification
\* leaves the table as written and counts N rows.
C5_RoundTrip ==
    [][ /\ (pc = "SchemaEnsured" /\ pc' = "Written") =>
            /\ Target \in DOMAIN tables'
            /\ Len(tables'[Target].rows) = Len(df.rows)
            /\ tables'[Target].columns = df.columns \cup {"loaded_at", "source_file"}
            /\ \A i \in 1..Len(df.rows) :
                  /\ DOMAIN tables'[Target].rows[i] = tables'[Target].columns
                  /\ \A c \in df.columns \ {"loaded_at", "source_file"} :
                        tables'[Target].rows[i][c] = df.rows[i][c]
                  /\ tables'[Target].rows[i]["loaded_at"] \in 1..run
                  /\ tables'[Target].rows[i]["source_file"] \notin {None, NaN, ""}
        /\ (pc = "Written" /\ pc' = "Persisted") =>
            /\ tables' = tables
            /\ row_count' = {Len(tables[Target].rows)}
      ]_vars

C5_Witness ==
    /\ pc = "Persisted"
    /\ Len(tables[Target].rows) = 2
    /\ \A i \in 1..2 : tables[Target].rows[i]["source_file"] = "sales.csv"

\* the normalised column names of the file this run read
CsvColumns == UNION {{Normalize(h) : h \in f.header} : f \in csv}
LacksRequired == csv # {} /\ {"store_number", "date", "weekly_sales"} \ CsvColumns # {}

\* C6 as stated: whenever the file lacks a required column, the error of the
\* run is raised by validate_data.
C6_ValidatorRaises ==
    (pc = "Closed" /\ LacksRequired) => raised.by = "validate_data"

\* C6 as amended: a file that lacks date makes load_and_clean_data raise
\* KeyError; a file that has date and lacks store_number or weekly_sales
\* makes validate_data raise "Missing required columns"; in both cases the
\* run never gets past the Validator and the database is untouched.
C6_MissingColumnAborts ==
    LacksRequired =>
        /\ pc \in {"Loaded", "Cleaned", "Closed"}
        /\ tables = startTables
        /\ pc = "Closed" =>
              IF "date" \notin CsvColumns
              THEN raised.by = "load_and_clean_data" /\ raised.exc = "KeyError"
              ELSE /\ raised.by = "validate_data"
                   /\ raised.exc = "ValueError: Missing required columns"

C6_Witness ==
    /\ pc = "Closed"
    /\ CsvColumns = {"store_number", "weekly_sales"}
    /\ raised.by = "load_and_clean_data"
    /\ \E f \in csv : Len(f.rows) = 2

\* validate_data has been called on df (df has since only been stamped)
AfterValidate ==
    \/ pc \in {"Validated", "SchemaEnsured", "Written", "Persisted"}
    \/ Succeeded
    \/ Failed /\ raised.at \in {"Cleaned", "Validated", "SchemaEnsured", "Written"}

NonPositiveStore(d) ==
    /\ "store_number" \in d.columns
    /\ d.dtype["store_number"] \in {"i", "f"}
    /\ \E i \in 1..Len(d.rows) : Num(d.rows[i]["store_number"]) <= 0

\* C7: a batch with a row whose store_number is zero or negative makes
\* validate_data raise ValueError, the run ends there and the database is
\* as it was; every batch that got past validate_data has an integer
\* store_number column with a positive value on every row.
C7_NonPositiveStoreFatal ==
    /\ (AfterValidate /\ NonPositiveStore(df)) =>
          /\ Failed
          /\ raised.by = "validate_data"
          /\ raised.exc \in {"ValueError: Missing required columns",
                             "ValueError: Store numbers must be integers",
                             "ValueError: Store numbers must be positive"}
          /\ tables = startTables
    /\ (AfterValidate /\ raised.by # "validate_data") =>
          /\ df.dtype["store_number"] = "i"
          /\ \A i \in 1..Len(df.rows) : Num(df.rows[i]["store_number"]) > 0

C7_Witness ==
    /\ Failed
    /\ raised.exc = "ValueError: Store numbers must be positive"
    /\ Len(df.rows) = 2
    /\ df.rows[1]["store_number"] = "2"
    /\ df.rows[2]["store_number"] = "0"

\* the four fatal checks of the Validator
PassesFatalChecks(d) ==
    /\ {"store_number", "date", "weekly_sales"} \subseteq d.columns
    /\ d.dtype["date"] = "M"
    /\ d.dtype["store_number"] = "i"
    /\ \A i \in 1..Len(d.rows) : Num(d.rows[i]["store_number"]) > 0

NumericSales(d) == d.dtype["weekly_sales"] \in {"i", "f"}

\* a row with negative sales or with a date after the current time
FlaggedRows(d) ==
    \/ NumericSales(d) /\ \E i \in 1..Len(d.rows) : Num(d.rows[i]["weekly_sales"]) < 0
    \/ \E i \in 1..Len(d.rows) : DateNum(d.rows[i]["date"]) > Now

Labels(d) == {d.index[k] : k \in 1..Len(d.index)}

\* C9: the cleaning step keeps exactly the rows whose date parsed, in their
\* order and with their dates, and drops exactly the rows whose date is
\* missing, so no remaining row has a missing date; on the strict and on the
\* lenient parse path alike.
C9_DropsExactlyNullDates ==
    [][ (pc = "Loaded" /\ pc' = "Cleaned") =>
            /\ Len(df'.rows) = Len(df'.index)
            /\ \A k \in 1..Len(df'.rows) : df'.rows[k]["date"] # NaT
            /\ \A i \in 1..Len(df.rows) :
                  (df.rows[i]["date"] # NaT) = (df.index[i] \in Labels(df'))
            /\ \A k \in 1..Len(df'.rows) : \A i \in 1..Len(df.rows) :
                  df.index[i] = df'.index[k] =>
                      /\ df'.rows[k]["date"] = df.rows[i]["date"]
                      /\ \A j \in 1..Len(df'.rows) : j < k => df'.index[j] < df'.index[k]
      ]_vars

C9_Witness ==
    /\ pc = "Cleaned"
    /\ "date format does not match" \in log
    /\ "removing rows with invalid dates" \in log
    /\ Len(df.rows) = 1
    /\ df.index = <<1>>
    /\ df.rows[1]["date"] = "2024-03-01"

\* C10: a run that ends without error has replaced the target table by its
\* batch; a run that fails before the write of the Persister leaves every
\* table as it was when the run started; a run that fails after the write
\* leaves the replaced table in place.
C10_NoPartialSuccess ==
    pc = "Closed" =>
        /\ (raised = NoError \/ raised.at = "Written") =>
              /\ Target \in DOMAIN tables
              /\ tables[Target].columns = df.columns
              /\ tables[Target].rows = df.rows
        /\ (raised # NoError /\ raised.at \in {"Start", "EnvLoaded", "Downloaded",
                                               "Connected", "Loaded", "Cleaned",
                                               "Validated"}) =>
              tables = startTables

C10_Witness ==
    /\ Failed
    /\ raised.by = "validate_data"
    /\ run = 2
    /\ Target \in DOMAIN tables
    /\ Len(tables[Target].rows) = 2
    /\ tables[Target].rows[1]["loaded_at"] = 1
    /\ tables = startTables

====
